---- MODULE Spec2Model ----
\* A model of jumble_solver.py: the AnagramFinder class (construction of the
\* index, the query with its cache) and its nested __WordToNumberMapper (the
\* table of primes, map, is_sub_or_full_anagram).
\*
\* A Python str is modelled as a sequence of one-character strings, a list as a
\* sequence, the insertion-ordered dict _word_dict as a sequence of
\* [key, words] records in insertion order, and the dict _found_anagrams as a
\* function whose domain is the set of its keys.  Python's int is unbounded;
\* the bounds below keep every product far below 2^31.
EXTENDS Integers, Sequences, FiniteSets, TLC

VARIABLES
    \* --- AnagramFinder.__WordToNumberMapper.__list_first_n_primes (lines 91-106)
    ppc,              \* position in the mapper's constructor
    primes,           \* the local list `primes`
    i,                \* the local candidate `i`
    k,                \* index of the for loop over `primes` (line 100)
    found_new_prime,  \* the local flag
    _prime_dict,      \* self._prime_dict (line 89), <<>> until it is built
    \* --- map / is_sub_or_full_anagram applied to a pair of words (lines 118-127)
    mpc, w1, w2, src_repr, cmp_repr, verdict,
    \* --- AnagramFinder (lines 38-75)
    pc,               \* "new": before __init__, "ready": built, "failed": __init__ raised
    word_list,        \* the argument of __init__
    _word_dict,       \* self._word_dict
    _found_anagrams,  \* self._found_anagrams
    word,             \* the argument of the last find_sub_and_full_anagrams call
    outcome,          \* how that call ended: "return" or the exception it raised
    result,           \* <<list>> when the call returned a list, <<>> when it returned nothing
    scanned,          \* TRUE iff that call iterated self._word_dict (lines 70-73)
    returned          \* history: query string -> the list its first returning call gave

primeVars == <<ppc, primes, i, k, found_new_prime>>
mapVars == <<mpc, w1, w2, src_repr, cmp_repr, verdict>>
finderVars == <<pc, word_list, _word_dict, _found_anagrams, word, outcome, result,
                scanned, returned>>
vars == <<primeVars, _prime_dict, mapVars, finderVars>>

\* ------------------------------------------------------------------ bounds
\* longest word whose pair is given to map / is_sub_or_full_anagram
MaxLen == 3
\* longest word list given to AnagramFinder.__init__
MaxWords == 3

\* ------------------------------------------------------------- characters
\* the string of line 89
lowercase == <<"a", "b", "c", "d", "e", "f", "g", "h", "i", "j", "k", "l", "m",
               "n", "o", "p", "q", "r", "s", "t", "u", "v", "w", "x", "y", "z">>
uppercase == <<"A", "B", "C", "D", "E", "F", "G", "H", "I", "J", "K", "L", "M",
               "N", "O", "P", "Q", "R", "S", "T", "U", "V", "W", "X", "Y", "Z">>
\* number of primes asked for by the mapper's constructor (line 88)
NLetters == 26

Range(s) == {s[n] : n \in 1..Len(s)}
IndexOf(s, c) == CHOOSE n \in 1..Len(s) : s[n] = c

\* letters str.isalpha accepts besides a..z and A..Z (it is Unicode-aware);
\* str.lower leaves this one as it is
OtherLetters == {"é"}
\* characters str.isalpha rejects
NonLetters == {"2", " "}
AlphaChars == Range(lowercase) \cup Range(uppercase) \cup OtherLetters

\* str.lower, character by character (line 47)
lower_char(c) == IF c \in Range(uppercase) THEN lowercase[IndexOf(uppercase, c)] ELSE c
lower(s) == [n \in 1..Len(s) |-> lower_char(s[n])]

\* mutant of isalpha: str.isalnum in its place, digits pass
isalpha_as_isalnum(s) == Len(s) > 0 /\ \A n \in 1..Len(s) : s[n] \in AlphaChars \cup {"2"}

\* str.isalpha: non-empty and every character a letter (lines 48, 56)
isalpha(s) == Len(s) > 0 /\ \A n \in 1..Len(s) : s[n] \in AlphaChars

\* ------------------------------------------------- the table of primes
\* lines 97-105: the next i above `from` that no element of ps divides
RECURSIVE next_prime(_, _)
next_prime(ps, from) ==
    LET c == from + 1
    IN  IF \E n \in 1..Len(ps) : c % ps[n] = 0 THEN next_prime(ps, c) ELSE c

\* lines 94-106: the loop from a list ps, until it holds n primes
RECURSIVE extend_primes(_, _)
extend_primes(ps, n) ==
    IF Len(ps) < n THEN extend_primes(Append(ps, next_prime(ps, ps[Len(ps)])), n) ELSE ps

list_first_n_primes(n) == extend_primes(<<2>>, n)

\* line 89: {c: prime_list[i] for i, c in enumerate("abc...z")}
make_prime_dict(prime_list) ==
    [c \in Range(lowercase) |-> prime_list[IndexOf(lowercase, c)]]

\* ---------------------------------- the mapper's constructor, step by step
PrimesIdle ==
    /\ ppc = "idle" /\ primes = <<>> /\ i = 0 /\ k = 0 /\ found_new_prime = FALSE

\* line 93: primes = [2]
PrimesStart ==
    /\ ppc = "while_len" /\ primes = <<2>> /\ i = 0 /\ k = 0 /\ found_new_prime = FALSE

\* lines 94-96: while len(primes) < n: i = primes[-1]; found_new_prime = False
\* line 106 when the test fails
WhileLen ==
    /\ ppc = "while_len"
    /\ IF Len(primes) < NLetters
          THEN /\ i' = primes[Len(primes)]
               /\ found_new_prime' = FALSE
               /\ ppc' = "while_found"
          ELSE /\ ppc' = "return"
               /\ UNCHANGED <<i, found_new_prime>>
    /\ UNCHANGED <<primes, k, _prime_dict, mapVars, finderVars>>

\* lines 97-99: while not found_new_prime: found_new_prime = True; i += 1
WhileFound ==
    /\ ppc = "while_found"
    /\ IF ~found_new_prime
          THEN /\ found_new_prime' = TRUE
               /\ i' = i + 1
               /\ k' = 1
               /\ ppc' = "for"
          ELSE /\ ppc' = "while_len"
               /\ UNCHANGED <<i, k, found_new_prime>>
    /\ UNCHANGED <<primes, _prime_dict, mapVars, finderVars>>

\* mutant of Divides: the first prime of the list is never tried
Divides_skipping_first(ps, n, c) == n > 1 /\ c % ps[n] = 0

\* line 101: if i % prime == 0, for the prime at position n of ps
Divides(ps, n, c) == c % ps[n] = 0

\* lines 100-103: one iteration of `for prime in primes`
ForPrime ==
    /\ ppc = "for"
    /\ IF k > Len(primes)
          THEN /\ ppc' = "if_found"
               /\ UNCHANGED <<k, found_new_prime>>
          ELSE IF Divides(primes, k, i)
                  THEN /\ found_new_prime' = FALSE
                       /\ ppc' = "if_found"
                       /\ UNCHANGED k
                  ELSE /\ k' = k + 1
                       /\ UNCHANGED <<ppc, found_new_prime>>
    /\ UNCHANGED <<primes, i, _prime_dict, mapVars, finderVars>>

\* lines 104-105: if found_new_prime: primes.append(i)
IfFound ==
    /\ ppc = "if_found"
    /\ primes' = IF found_new_prime THEN Append(primes, i) ELSE primes
    /\ ppc' = "while_found"
    /\ UNCHANGED <<i, k, found_new_prime, _prime_dict, mapVars, finderVars>>

\* lines 88-89: prime_list = the returned list; self._prime_dict = {...}
MapperInit ==
    /\ ppc = "return"
    /\ _prime_dict' = make_prime_dict(primes)
    /\ ppc' = "done"
    /\ UNCHANGED <<primes, i, k, found_new_prime, mapVars, finderVars>>

\* ------------------------------------------------- map and the predicate
\* lines 118-123; s is a word every character of which is a key of pd
RECURSIVE map_from(_, _, _, _)
map_from(pd, s, n, res_nbr) ==
    IF n > Len(s) THEN res_nbr ELSE map_from(pd, s, n + 1, res_nbr * pd[s[n]])

\* mutant of map: res_nbr += in place of res_nbr *=
RECURSIVE map_adding_from(_, _, _, _)
map_adding_from(pd, s, n, res_nbr) ==
    IF n > Len(s) THEN res_nbr ELSE map_adding_from(pd, s, n + 1, res_nbr + pd[s[n]])
map_adding(pd, s) == map_adding_from(pd, s, 1, 1)

map(pd, s) == map_from(pd, s, 1, 1)

\* line 122 raises KeyError for a character that is no key of the table
map_raises(pd, s) == \E n \in 1..Len(s) : s[n] \notin DOMAIN pd

\* mutant of is_sub_or_full_anagram: the operands exchanged
is_sub_or_full_anagram_swapped(src, cmp) == cmp % src = 0

\* lines 125-127
is_sub_or_full_anagram(src, cmp) == src % cmp = 0

MapIdle ==
    /\ mpc = "idle" /\ w1 = <<>> /\ w2 = <<>>
    /\ src_repr = 0 /\ cmp_repr = 0 /\ verdict = FALSE

\* the letters the pairs of words are drawn from
MapLetters == {"a", "b", "c", "z"}
WordsUpTo(chars, n) == UNION {[1..m -> chars] : m \in 0..n}
MapWords == WordsUpTo(MapLetters, MaxLen)

\* src_repr = map(W1), cmp_repr = map(W2)
MapPair ==
    /\ mpc = "start"
    /\ src_repr' = map(_prime_dict, w1)
    /\ cmp_repr' = map(_prime_dict, w2)
    /\ mpc' = "mapped"
    /\ UNCHANGED <<w1, w2, verdict, _prime_dict, primeVars, finderVars>>

TestPair ==
    /\ mpc = "mapped"
    /\ verdict' = is_sub_or_full_anagram(src_repr, cmp_repr)
    /\ mpc' = "tested"
    /\ UNCHANGED <<w1, w2, src_repr, cmp_repr, _prime_dict, primeVars, finderVars>>

FinderIdle ==
    /\ pc = "idle" /\ word_list = <<>> /\ _word_dict = <<>>
    /\ _found_anagrams = <<>> /\ word = <<>> /\ outcome = "none" /\ result = <<>>
    /\ scanned = FALSE /\ returned = <<>>

InitPrimes == PrimesStart /\ _prime_dict = <<>> /\ MapIdle /\ FinderIdle
NextPrimes == WhileLen \/ WhileFound \/ ForPrime \/ IfFound \/ MapperInit
SpecPrimes == InitPrimes /\ [][NextPrimes]_vars
\* the loop is the only code running: it is never left waiting
FairPrimes == SpecPrimes /\ WF_vars(NextPrimes)

InitMap ==
    /\ PrimesIdle /\ FinderIdle
    /\ _prime_dict = make_prime_dict(list_first_n_primes(NLetters))
    /\ mpc = "start" /\ w1 \in MapWords /\ w2 \in MapWords
    /\ src_repr = 0 /\ cmp_repr = 0 /\ verdict = FALSE
NextMap == MapPair \/ TestPair
SpecMap == InitMap /\ [][NextMap]_vars

\* ----------------------------------------------------------- AnagramFinder
\* the raw strings the word lists and the queries are drawn from
Vocabulary ==
    { <<"d", "o", "g">>, <<"g", "o", "d">>, <<"g", "o">>, <<"d", "o">>,
      <<"c", "a", "t">>, <<"D", "o", "g">>, <<"d", "o", "g", "2">>,
      <<>>, <<" ", " ">>, <<"é">> }
WordLists == UNION {[1..m -> Vocabulary] : m \in 0..MaxWords}

\* line 51: self._word_dict.setdefault(nbr_repr, []).append(word)
setdefault_append(d, nbr_repr, s) ==
    IF \E n \in 1..Len(d) : d[n].key = nbr_repr
       THEN LET n == CHOOSE m \in 1..Len(d) : d[m].key = nbr_repr
            IN  [d EXCEPT ![n].words = Append(@, s)]
       ELSE Append(d, [key |-> nbr_repr, words |-> <<s>>])

\* lines 46-51: the loop of __init__ from entry n on, d the dict so far;
\* raised is TRUE when map raised KeyError (line 50)
RECURSIVE build_from(_, _, _, _)
build_from(pd, wl, n, d) ==
    IF n > Len(wl) THEN [raised |-> FALSE, dict |-> d]
    ELSE LET s == lower(wl[n])
         IN  IF ~isalpha(s) THEN build_from(pd, wl, n + 1, d)
             ELSE IF map_raises(pd, s) THEN [raised |-> TRUE, dict |-> d]
             ELSE build_from(pd, wl, n + 1, setdefault_append(d, map(pd, s), s))

\* lines 45-52
AnagramFinderInit ==
    /\ pc = "new"
    /\ \E wl \in WordLists :
          LET b == build_from(_prime_dict, wl, 1, <<>>)
          IN  /\ word_list' = wl
              /\ pc' = IF b.raised THEN "failed" ELSE "ready"
              /\ _word_dict' = IF b.raised THEN <<>> ELSE b.dict
    /\ _found_anagrams' = <<>>
    /\ UNCHANGED <<word, outcome, result, scanned, returned,
                   _prime_dict, primeVars, mapVars>>

\* lines 70-73: the words of every group whose key divides nbr_repr, the groups
\* in the dict's order, from group n on
RECURSIVE all_anagrams_from(_, _, _)
all_anagrams_from(d, nbr_repr, n) ==
    IF n > Len(d) THEN <<>>
    ELSE (IF is_sub_or_full_anagram(nbr_repr, d[n].key) THEN d[n].words ELSE <<>>)
         \o all_anagrams_from(d, nbr_repr, n + 1)

\* mutant of list_remove: every occurrence of x removed
list_remove_all(l, x) == LET Other(e) == e # x IN SelectSeq(l, Other)

\* list.remove (line 74): the list without the first occurrence of x;
\* it raises ValueError when x is not in the list
list_remove(l, x) ==
    LET n == CHOOSE m \in 1..Len(l) : l[m] = x /\ \A q \in 1..(m - 1) : l[q] # x
    IN  SubSeq(l, 1, n - 1) \o SubSeq(l, n + 1, Len(l))

\* mutant of cache_store: the result is not stored
cache_store_skipped(cache, s, anagrams) == cache
\* mutant of cache_store: the new entry replaces the cache
cache_store_evicting(cache, s, anagrams) == (s :> anagrams)

\* line 64: self._found_anagrams[word] = anagrams
cache_store(cache, s, anagrams) == (s :> anagrams) @@ cache

\* how a call of find_sub_and_full_anagrams(s) ends
Call(s, how, res, scan) ==
    /\ word' = s
    /\ outcome' = how
    /\ result' = res
    /\ scanned' = scan
    /\ returned' = IF how = "return" /\ s \notin DOMAIN returned
                      THEN (s :> res[1]) @@ returned ELSE returned

\* lines 54-75
find_sub_and_full_anagrams(s) ==
    IF ~isalpha(s)
       \* lines 56-58: print, then sys.exit(0) (lines 172-174)
       THEN Call(s, "SystemExit", <<>>, FALSE) /\ UNCHANGED _found_anagrams
    ELSE IF s \in DOMAIN _found_anagrams
       \* lines 60-61
       THEN Call(s, "return", <<_found_anagrams[s]>>, FALSE) /\ UNCHANGED _found_anagrams
    ELSE IF map_raises(_prime_dict, s)
       \* line 69: KeyError out of map (line 122)
       THEN Call(s, "KeyError", <<>>, FALSE) /\ UNCHANGED _found_anagrams
    ELSE LET all_anagrams == all_anagrams_from(_word_dict, map(_prime_dict, s), 1)
         IN  IF s \notin Range(all_anagrams)
                \* line 74: ValueError out of list.remove
                THEN Call(s, "ValueError", <<>>, TRUE) /\ UNCHANGED _found_anagrams
                \* lines 74-75, 63-65
                ELSE LET anagrams == list_remove(all_anagrams, s)
                     IN  /\ _found_anagrams' = cache_store(_found_anagrams, s, anagrams)
                         /\ Call(s, "return", <<anagrams>>, TRUE)

Query ==
    /\ pc = "ready"
    /\ \E s \in Vocabulary : find_sub_and_full_anagrams(s)
    /\ UNCHANGED <<pc, word_list, _word_dict, _prime_dict, primeVars, mapVars>>

\* line 44 has run: the mapper is built
Init ==
    /\ PrimesIdle /\ MapIdle
    /\ _prime_dict = make_prime_dict(list_first_n_primes(NLetters))
    /\ pc = "new" /\ word_list = <<>> /\ _word_dict = <<>>
    /\ _found_anagrams = <<>> /\ word = <<>> /\ outcome = "none" /\ result = <<>>
    /\ scanned = FALSE /\ returned = <<>>
Next == AnagramFinderInit \/ Query
Spec == Init /\ [][Next]_vars

\* =================================================================== claims
\* ------------------------------------------------ vocabulary of the claims
\* number of occurrences of x in the sequence l
Count(l, x) == Cardinality({n \in 1..Len(l) : l[n] = x})
\* the letters of sub, with multiplicity, are among the letters of sup
SubMultiset(sub, sup) == \A c \in Range(sub) : Count(sub, c) <= Count(sup, c)
SameLetters(a, b) == SubMultiset(a, b) /\ SubMultiset(b, a)
\* a non-empty word of letters a..z only
IsLowerWord(s) == Len(s) > 0 /\ \A n \in 1..Len(s) : s[n] \in Range(lowercase)
HasNonLetter(s) == \E n \in 1..Len(s) : s[n] \in NonLetters
HasUpper(s) == \E n \in 1..Len(s) : s[n] \in Range(uppercase)
IsAsciiWord(s) ==
    Len(s) > 0 /\ \A n \in 1..Len(s) : s[n] \in Range(lowercase) \cup Range(uppercase)
AllLetters(s) == Len(s) > 0 /\ \A n \in 1..Len(s) : s[n] \notin NonLetters
\* the entries of a word list in lowercase, in input order
Lowered(wl) == [n \in 1..Len(wl) |-> lower(wl[n])]
\* the entries a word list contributes to the index, in input order
Entries(wl) == SelectSeq(Lowered(wl), AllLetters)
\* the entries whose letters are contained in those of q, in input order
MatchesOf(wl, q) == LET Fits(e) == SubMultiset(e, q) IN SelectSeq(Entries(wl), Fits)
Called == pc = "ready" /\ outcome # "none"
IsPrime(p) == p > 1 /\ \A q \in 2..(p - 1) : p % q # 0

\* ----------------------------------------------------------------------- C1
\* C1: for all words W1, W2 over a..z, map(W1) % map(W2) = 0, that is
\* is_sub_or_full_anagram(map(W1), map(W2)), iff every letter occurs in W2 at
\* most as often as in W1.
C1_Divisibility ==
    /\ mpc \in {"mapped", "tested"} =>
          ((src_repr % cmp_repr = 0) <=> SubMultiset(w2, w1))
    /\ mpc = "tested" => (verdict <=> SubMultiset(w2, w1))

\* a proper, non-empty sub-anagram was recognised
C1_Witness ==
    /\ mpc = "tested" /\ verdict
    /\ 0 < Len(w2) /\ Len(w2) < Len(w1) /\ Cardinality(Range(w1)) > 1

\* ----------------------------------------------------------------------- C9
TableIsFirstPrimes ==
    LET vals == {_prime_dict[c] : c \in DOMAIN _prime_dict}
    IN  /\ DOMAIN _prime_dict = Range(lowercase)
        /\ \A c, e \in DOMAIN _prime_dict : c # e => _prime_dict[c] # _prime_dict[e]
        /\ Len(primes) = 26
        /\ vals = {p \in 2..101 : IsPrime(p)}
        /\ \A n \in 1..25 : _prime_dict[lowercase[n]] < _prime_dict[lowercase[n + 1]]

\* C9: the trial-division loop terminates, and the table the constructor then
\* builds is total and injective over a..z, its values being exactly the first
\* 26 primes, 2 to 101, in increasing order from a to z.
C9_PrimeTable == <>(ppc = "done") /\ [](ppc = "done" => TableIsFirstPrimes)

\* the constructor finished, with the table the index is built with
C9_Witness ==
    /\ ppc = "done" /\ Len(primes) = 26
    /\ _prime_dict = make_prime_dict(list_first_n_primes(NLetters))
    /\ _prime_dict["d"] = 7 /\ _prime_dict["o"] = 47 /\ _prime_dict["g"] = 17

\* ----------------------------------------------------------------------- C2
\* the words that occur in the list l, or in the list m
Words2(l, m) == Range(l) \cup Range(m)

\* C2 as stated: a query with a lowercase word of the list returns exactly the
\* dictionary words whose letters are contained in the query's, the query
\* word itself excluded.
C2_AsStated ==
    (Called /\ IsLowerWord(word) /\ word \in Range(word_list)) =>
        /\ outcome = "return"
        /\ Range(result[1]) =
              {e \in Range(Entries(word_list)) : SubMultiset(e, word)} \ {word}

\* C2, amended: a query with a lowercase word of the list returns the entries
\* of the list whose letters are contained in the query's, each as often as
\* the list holds it, less one occurrence of the query word.
C2_OneOccurrenceExcluded ==
    (Called /\ IsLowerWord(word) /\ word \in Range(word_list)) =>
        /\ outcome = "return"
        /\ LET m == MatchesOf(word_list, word)
           IN  \A e \in Words2(m, result[1]) :
                  Count(result[1], e) = Count(m, e) - (IF e = word THEN 1 ELSE 0)

\* dog among god, go and the unrelated cat: first query, two matches
C2_Witness ==
    /\ Called /\ scanned /\ outcome = "return"
    /\ word = <<"d", "o", "g">> /\ word \in Range(word_list)
    /\ <<"c", "a", "t">> \in Range(word_list)
    /\ result[1] = <<<<"g", "o">>>>

\* ----------------------------------------------------------------------- C3
\* C3 as stated: the list returned for a word present verbatim in the word
\* list never holds that word, duplicates in the word list included.
C3_AsStated ==
    (Called /\ outcome = "return" /\ word \in Range(word_list)) =>
        word \notin Range(result[1])

\* C3, amended: the list returned for a word present verbatim in the word list
\* holds that word once less than the lowercased word list does; it does not
\* hold it when the word list holds it once.
C3_RemovedOnce ==
    (Called /\ outcome = "return" /\ word \in Range(word_list)) =>
        Count(result[1], word) = Count(Entries(word_list), word) - 1

\* the query word is absent, its full anagram is there
C3_Witness ==
    /\ Called /\ outcome = "return" /\ word \in Range(word_list)
    /\ Count(Entries(word_list), word) = 1
    /\ word \notin Range(result[1])
    /\ \E e \in Range(result[1]) : SameLetters(e, word)

\* ----------------------------------------------------------------------- C4
\* C4: a query with a word of letters a..z that is not in the dictionary
\* returns all its sub-anagram matches, the empty list when there are none.
C4_AbsentWordReturns ==
    (Called /\ IsLowerWord(word) /\ word \notin Range(Entries(word_list))) =>
        /\ outcome = "return"
        /\ result = <<MatchesOf(word_list, word)>>

\* ----------------------------------------------------------------------- C5
\* C5: a query word of letters with an uppercase one among them is accepted,
\* matched as its lowercase form, and cached under the string as given.
C5_UppercaseAccepted ==
    (Called /\ IsAsciiWord(word) /\ HasUpper(word)
            /\ lower(word) \in Range(Entries(word_list))) =>
        /\ outcome = "return"
        /\ word \in DOMAIN _found_anagrams
        /\ \A e \in Range(result[1]) : SubMultiset(e, lower(word))

\* ----------------------------------------------------------------------- C6
\* C6: a query whose word holds a non-alphabetic character ends in the
\* invalid-query outcome: no list is returned, the index is not scanned and
\* the cache holds no entry for the word.
C6_InvalidQuery ==
    (Called /\ HasNonLetter(word)) =>
        /\ outcome = "SystemExit"
        /\ result = <<>>
        /\ ~scanned
        /\ word \notin DOMAIN _found_anagrams

\* dog2 refused on an index that has already answered a query
C6_Witness ==
    /\ Called /\ word = <<"d", "o", "g", "2">> /\ outcome = "SystemExit"
    /\ _found_anagrams # <<>>

\* ----------------------------------------------------------------------- C7
\* C7: once a query for a string has returned a list, every later query for
\* the same string returns that list, without scanning the index.
C7_IdempotentCaching ==
    [][(pc = "ready" /\ word' \in DOMAIN returned) =>
          /\ outcome' = "return"
          /\ result' = <<returned[word']>>
          /\ ~scanned']_vars

\* a repeated query answered from the cache, after a query for another string
C7_Witness ==
    /\ Called /\ outcome = "return" /\ ~scanned
    /\ Cardinality(DOMAIN returned) >= 2
    /\ result[1] # <<>>

\* ----------------------------------------------------------------------- C8
\* the group of _word_dict that holds the entries with the letters of e
GroupOf(e) ==
    LET Same(x) == SameLetters(x, e) IN SelectSeq(Entries(word_list), Same)

\* C8: construction raises no error; every entry that is empty or holds a
\* non-letter contributes nothing, and every other entry is appended in
\* lowercase to the group of its signature, in input order, duplicates kept.
C8_ConstructionFilters ==
    pc # "new" =>
        /\ pc = "ready"
        /\ \A n \in 1..Len(_word_dict) :
              _word_dict[n].words = GroupOf(_word_dict[n].words[1])
        /\ \A e \in Range(Entries(word_list)) :
              \E n \in 1..Len(_word_dict) : e \in Range(_word_dict[n].words)
        /\ \A n, m \in 1..Len(_word_dict) :
              n # m => _word_dict[n].key # _word_dict[m].key

\* ---------------------------------------------------------------------- C10
\* C10: a query call never changes _word_dict; it adds at most one entry to
\* _found_anagrams, under the query string and only when it returns a list,
\* and it never removes or replaces an entry.
C10_CacheOnlyGrows ==
    [][pc = "ready" =>
          /\ _word_dict' = _word_dict
          /\ \A s \in DOMAIN _found_anagrams :
                s \in DOMAIN _found_anagrams' /\ _found_anagrams'[s] = _found_anagrams[s]
          /\ (DOMAIN _found_anagrams' \ DOMAIN _found_anagrams) \subseteq {word'}
          /\ DOMAIN _found_anagrams' # DOMAIN _found_anagrams =>
                outcome' = "return" /\ result' = <<_found_anagrams'[word']>>]_vars

\* two entries stored, and a failed query has left them alone
C10_Witness ==
    /\ Called /\ Cardinality(DOMAIN _found_anagrams) = 2
    /\ outcome = "ValueError"

====
